---- MODULE Spec2Model ----
(***************************************************************************)
(* A model of the in-process publish/subscribe broker of                   *)
(* message_broker/broker.py: the subscription registry (an insertion-      *)
(* ordered dict from pattern to list of consumers), the wildcard matcher,  *)
(* and the synchronous fan-out of publish to the consumers' mailboxes.     *)
(*                                                                         *)
(* Python values are modelled as follows.                                  *)
(*   - A str is a sequence of one-character strings; every other argument  *)
(*     value is a record with another "kind" (None).                       *)
(*   - The dict self.subscriptions is a sequence of entries                *)
(*     [topic, consumers] in insertion order with pairwise distinct        *)
(*     topics; a deleted key leaves the sequence, a re-inserted one goes   *)
(*     to its end, as in a Python 3.7+ dict.                               *)
(*   - A Consumer object is its identity (Consumer defines no __eq__, so   *)
(*     list.remove compares identities); consumer.messages is              *)
(*     messages[c], a sequence of <<topic, message>> pairs.                *)
(*   - The print calls of Consumer.receive_message write to stdout only    *)
(*     and are not modelled.                                               *)
(***************************************************************************)
EXTENDS Integers, Sequences, FiniteSets

VARIABLES
    subscriptions,  \* MessageBroker.subscriptions
    messages,       \* Consumer.messages, per consumer
    last,           \* the last call made: the method, the branch of its code
                    \* that ran, what it raised and what it returned
    watch,          \* history: one unsubscribe call that removed a
                    \* registration, observed until its consumer subscribes
                    \* again
    published,      \* history: the (topic, message) pairs of the publishes
                    \* that were made and not rejected, in the order made
    early,          \* history: the consumers that have held one
                    \* registration, under "~", and no other since before
                    \* the first of those publishes
    trip,           \* history: a subscribe call and the registry it found,
                    \* observed while the next call is the unsubscribe call
                    \* of the same consumer and pattern
    pub,            \* a publish call running in a thread of its own: its
                    \* place in the code, its iterators and the
                    \* receive_message calls it has made
    mut,            \* a subscribe or unsubscribe call running in another
                    \* thread: its place in the code
    race,           \* history: whether a subscribe or unsubscribe call ran
                    \* while the publish did, and the registry before and
                    \* after that call
    file_versions,  \* FileChangeMonitor.file_versions
    audit_log,      \* the lines of the file at audit_log_path
    handler         \* the last on_modified call: its event, the calls it
                    \* made and what it raised

vars ==
    <<subscriptions, messages, last, watch, published, early, trip, pub, mut,
      race, file_versions, audit_log, handler>>

\* the history variables, which no call of the program reads
hist == <<watch, published, early, trip>>

\* the calls in flight when calls run in threads
conc == <<pub, mut, race>>

\* the file monitor
mon == <<file_versions, audit_log, handler>>

(***************************************************************************)
(* Bounds of the model.                                                    *)
(***************************************************************************)
\* Most registrations (consumer entries over all patterns) held at once.
MaxSubs == 3
\* Most entries held by all mailboxes together.
MaxMail == 2
\* Longest string drawn for the matcher's arguments.
MaxLen == 3
\* Most publishes recorded in the history of publishes.
MaxPub == 2
\* Most lines held by the audit log.
MaxLog == 2

(***************************************************************************)
(* Values.                                                                 *)
(***************************************************************************)
Str(s) == [kind |-> "str", chars |-> s]

NoneValue == [kind |-> "None", chars |-> <<>>]

\* The two consumers of the broker's tests, by identity.
Consumers == {"consumer", "consumer2"}

\* Consumer.name
name(c) == IF c = "consumer" THEN "TestConsumer" ELSE "NewConsumer"

\* The message published (the payload is handed through unread).
Messages == {"Message1"}

\* The topic/pattern arguments the broker is called with: the invalid kinds
\* of the tests (not a str, "", whitespace only), an exact pattern and a
\* prefix pattern.  Published, "a" matches both patterns and "a~" matches the
\* prefix pattern only.
TopicArgs ==
    { NoneValue, Str(<<>>), Str(<<" ">>), Str(<<"a">>), Str(<<"a", "~">>) }

\* The characters of the matcher's arguments: two letters differing in case
\* only, and the wildcard marker.
Chars == {"a", "A", "~"}

RECURSIVE SeqsOfLen(_)
SeqsOfLen(n) ==
    IF n = 0 THEN {<<>>}
    ELSE {Append(s, ch) : s \in SeqsOfLen(n - 1), ch \in Chars}

Strings == UNION {SeqsOfLen(n) : n \in 0..MaxLen}

(***************************************************************************)
(* str methods.                                                            *)
(***************************************************************************)
Whitespace == {" ", "\t", "\n"}

RECURSIVE lstrip(_)
lstrip(s) ==
    IF s # <<>> /\ Head(s) \in Whitespace THEN lstrip(Tail(s)) ELSE s

RECURSIVE rstrip(_)
rstrip(s) ==
    IF s # <<>> /\ s[Len(s)] \in Whitespace
    THEN rstrip(SubSeq(s, 1, Len(s) - 1)) ELSE s

\* str.strip()
strip(s) == rstrip(lstrip(s))

\* str.find(ch): the first index holding ch, 0 when there is none
RECURSIVE find(_, _, _)
find(s, ch, i) ==
    IF i > Len(s) THEN 0
    ELSE IF s[i] = ch THEN i
    ELSE find(s, ch, i + 1)

\* (mutant) str.rsplit(sep, 1): the split made at the last occurrence
RECURSIVE rfind(_, _, _)
rfind(s, ch, i) ==
    IF i < 1 THEN 0
    ELSE IF s[i] = ch THEN i
    ELSE rfind(s, ch, i - 1)

rsplit1(s, sep) ==
    LET i == rfind(s, sep, Len(s))
    IN  IF i = 0 THEN <<s>>
        ELSE <<SubSeq(s, 1, i - 1), SubSeq(s, i + 1, Len(s))>>

\* str.split(sep, 1): at most one split, at the first occurrence of sep
split1(s, sep) ==
    LET i == find(s, sep, 1)
    IN  IF i = 0 THEN <<s>>
        ELSE <<SubSeq(s, 1, i - 1), SubSeq(s, i + 1, Len(s))>>

\* str.startswith(prefix)
startswith(s, prefix) ==
    /\ Len(prefix) <= Len(s)
    /\ SubSeq(s, 1, Len(prefix)) = prefix

(***************************************************************************)
(* MessageBroker._is_valid_topic and MessageBroker._matches.               *)
(***************************************************************************)
\* (mutant) the check without strip(): len(topic) > 0
_is_valid_topic_no_strip(topic) ==
    topic.kind = "str" /\ Len(topic.chars) > 0

_is_valid_topic(topic) ==
    topic.kind = "str" /\ Len(strip(topic.chars)) > 0

\* (mutant) an exact pattern compared as a prefix, like a wildcard one
_matches_prefix_only(subscription, topic) ==
    LET parts == split1(subscription, "~")
    IN  startswith(topic, parts[1])

\* (mutant) a wildcard pattern with nothing before the marker matches nothing
_matches_nonempty_prefix(subscription, topic) ==
    LET parts == split1(subscription, "~")
    IN  IF Len(parts) = 1 THEN subscription = topic
        ELSE LET prefix == parts[1]
             IN  prefix # <<>> /\ startswith(topic, prefix)

_matches(subscription, topic) ==
    LET parts == split1(subscription, "~")
    IN  IF Len(parts) = 1 THEN subscription = topic
        ELSE LET prefix == parts[1] IN startswith(topic, prefix)

(***************************************************************************)
(* The dict self.subscriptions.                                            *)
(***************************************************************************)
\* topic in self.subscriptions
HasKey(subs, topic) == \E i \in 1..Len(subs) : subs[i].topic = topic

\* the position of the key topic
KeyIndex(subs, topic) == CHOOSE i \in 1..Len(subs) : subs[i].topic = topic

\* the keys, in iteration order
Keys(subs) == [i \in 1..Len(subs) |-> subs[i].topic]

\* (mutant) the first key deleted, whichever key is named
DelKey_first(subs, topic) == Tail(subs)

\* del self.subscriptions[topic]
DelKey(subs, topic) ==
    LET k == KeyIndex(subs, topic)
    IN  SubSeq(subs, 1, k - 1) \o SubSeq(subs, k + 1, Len(subs))

\* (mutant) remove applied to a copy of the list: the list is left as it was
ListRemove_on_copy(lst, x) == lst

\* (mutant) the list without the last occurrence of x
ListRemove_last(lst, x) ==
    LET k == rfind(lst, x, Len(lst))
    IN  SubSeq(lst, 1, k - 1) \o SubSeq(lst, k + 1, Len(lst))

\* list.remove(x): the list without the first occurrence of x
ListRemove(lst, x) ==
    LET k == find(lst, x, 1)
    IN  SubSeq(lst, 1, k - 1) \o SubSeq(lst, k + 1, Len(lst))

\* x in lst
InList(lst, x) == \E j \in 1..Len(lst) : lst[j] = x

\* (used by mutants) the list with each element kept at its first place only
RECURSIVE Unique(_)
Unique(lst) ==
    IF lst = <<>> THEN <<>>
    ELSE LET front == Unique(SubSeq(lst, 1, Len(lst) - 1))
             x == lst[Len(lst)]
         IN  IF InList(front, x) THEN front ELSE Append(front, x)

(***************************************************************************)
(* MessageBroker.subscribe: the registry afterwards and what was raised.   *)
(***************************************************************************)
\* (mutant) the consumer is registered before the topic is validated
subscribe_register_first(subs, consumer, topic) ==
    LET withKey ==
            IF ~HasKey(subs, topic)
            THEN Append(subs, [topic |-> topic, consumers |-> <<>>])
            ELSE subs
        k == KeyIndex(withKey, topic)
        added == [withKey EXCEPT ![k].consumers = Append(@, consumer)]
    IN  IF ~_is_valid_topic(topic)
        THEN [raised |-> "ValueError", branch |-> "invalid",
              subscriptions |-> added]
        ELSE [raised |-> "None",
              branch |-> IF HasKey(subs, topic) THEN "appended"
                         ELSE "created",
              subscriptions |-> added]

subscribe(subs, consumer, topic) ==
    IF ~_is_valid_topic(topic)
    THEN [raised |-> "ValueError", branch |-> "invalid",
          subscriptions |-> subs]
    ELSE LET withKey ==
                 IF ~HasKey(subs, topic)
                 THEN Append(subs, [topic |-> topic, consumers |-> <<>>])
                 ELSE subs
             k == KeyIndex(withKey, topic)
         IN  [raised |-> "None",
              branch |-> IF HasKey(subs, topic) THEN "appended"
                         ELSE "created",
              subscriptions |->
                  [withKey EXCEPT ![k].consumers = Append(@, consumer)]]

(***************************************************************************)
(* MessageBroker.unsubscribe.  list.remove raises ValueError when the      *)
(* consumer is not in the list, before anything is changed.                *)
(***************************************************************************)
\* (mutant) a consumer that is not in the list is skipped silently
unsubscribe_silent(subs, consumer, topic) ==
    IF ~HasKey(subs, topic)
    THEN [raised |-> "None", branch |-> "absent", subscriptions |-> subs]
    ELSE LET k == KeyIndex(subs, topic)
             removed ==
                 [subs EXCEPT ![k].consumers =
                     IF InList(@, consumer) THEN ListRemove(@, consumer)
                     ELSE @]
         IN  [raised |-> "None",
              branch |-> IF removed[k].consumers = <<>>
                         THEN "deleted" ELSE "removed",
              subscriptions |->
                  IF removed[k].consumers = <<>>
                  THEN DelKey(removed, topic)
                  ELSE removed]

\* (mutant) an unknown topic raises KeyError
unsubscribe_key_error(subs, consumer, topic) ==
    IF ~HasKey(subs, topic)
    THEN [raised |-> "KeyError", branch |-> "absent", subscriptions |-> subs]
    ELSE LET k == KeyIndex(subs, topic)
         IN  IF ~InList(subs[k].consumers, consumer)
             THEN [raised |-> "ValueError", branch |-> "not_in_list",
                   subscriptions |-> subs]
             ELSE LET removed ==
                          [subs EXCEPT
                              ![k].consumers = ListRemove(@, consumer)]
                  IN  [raised |-> "None",
                       branch |-> IF removed[k].consumers = <<>>
                                  THEN "deleted" ELSE "removed",
                       subscriptions |->
                           IF removed[k].consumers = <<>>
                           THEN DelKey(removed, topic)
                           ELSE removed]

\* (mutant) the key of an emptied list is not deleted
unsubscribe_keep_key(subs, consumer, topic) ==
    IF ~HasKey(subs, topic)
    THEN [raised |-> "None", branch |-> "absent", subscriptions |-> subs]
    ELSE LET k == KeyIndex(subs, topic)
         IN  IF ~InList(subs[k].consumers, consumer)
             THEN [raised |-> "ValueError", branch |-> "not_in_list",
                   subscriptions |-> subs]
             ELSE [raised |-> "None", branch |-> "removed",
                   subscriptions |->
                       [subs EXCEPT ![k].consumers = ListRemove(@, consumer)]]

\* (mutant) the topic validated first, as subscribe and publish do
unsubscribe_validating(subs, consumer, topic) ==
    IF ~_is_valid_topic(topic)
    THEN [raised |-> "ValueError", branch |-> "invalid",
          subscriptions |-> subs]
    ELSE IF ~HasKey(subs, topic)
    THEN [raised |-> "None", branch |-> "absent", subscriptions |-> subs]
    ELSE LET k == KeyIndex(subs, topic)
         IN  IF ~InList(subs[k].consumers, consumer)
             THEN [raised |-> "ValueError", branch |-> "not_in_list",
                   subscriptions |-> subs]
             ELSE LET removed ==
                          [subs EXCEPT
                              ![k].consumers = ListRemove(@, consumer)]
                  IN  [raised |-> "None",
                       branch |-> IF removed[k].consumers = <<>>
                                  THEN "deleted" ELSE "removed",
                       subscriptions |->
                           IF removed[k].consumers = <<>>
                           THEN DelKey(removed, topic)
                           ELSE removed]

unsubscribe(subs, consumer, topic) ==
    IF ~HasKey(subs, topic)
    THEN [raised |-> "None", branch |-> "absent", subscriptions |-> subs]
    ELSE LET k == KeyIndex(subs, topic)
         IN  IF ~InList(subs[k].consumers, consumer)
             THEN [raised |-> "ValueError", branch |-> "not_in_list",
                   subscriptions |-> subs]
             ELSE LET removed ==
                          [subs EXCEPT
                              ![k].consumers = ListRemove(@, consumer)]
                  IN  [raised |-> "None",
                       branch |-> IF removed[k].consumers = <<>>
                                  THEN "deleted" ELSE "removed",
                       subscriptions |->
                           IF removed[k].consumers = <<>>
                           THEN DelKey(removed, topic)
                           ELSE removed]

(***************************************************************************)
(* Consumer.receive_message and MessageBroker.publish.                     *)
(***************************************************************************)
\* (mutant) the mailbox replaced by the entry received
receive_message_overwrite(msgs, consumer, topic, message) ==
    [msgs EXCEPT ![consumer] = << <<topic, message>> >>]

\* (mutant) the entry put at the front of the mailbox
receive_message_prepend(msgs, consumer, topic, message) ==
    [msgs EXCEPT ![consumer] = << <<topic, message>> >> \o @]

receive_message(msgs, consumer, topic, message) ==
    [msgs EXCEPT ![consumer] = Append(@, <<topic, message>>)]

\* (mutant) each consumer of an entry notified once, however often it is
\* registered under the pattern
NotifyAll_once(consumers, topic, message) ==
    LET once == Unique(consumers)
    IN  [j \in 1..Len(once) |-> <<once[j], topic, message>>]

\* (mutant) the consumers of an entry notified last to first
NotifyAll_reversed(consumers, topic, message) ==
    [j \in 1..Len(consumers) |->
        <<consumers[Len(consumers) + 1 - j], topic, message>>]

\* the inner loop of publish: one receive_message call per consumer of an
\* entry, in list order
NotifyAll(consumers, topic, message) ==
    [j \in 1..Len(consumers) |-> <<consumers[j], topic, message>>]

\* (mutant) the outer loop without the test of _matches
RECURSIVE Dispatch_unfiltered(_, _, _)
Dispatch_unfiltered(subs, topic, message) ==
    IF subs = <<>> THEN <<>>
    ELSE NotifyAll(Head(subs).consumers, topic, message)
         \o Dispatch_unfiltered(Tail(subs), topic, message)

\* the outer loop of publish over self.subscriptions.items(): the
\* receive_message calls made, in the order they are made
RECURSIVE Dispatch(_, _, _)
Dispatch(subs, topic, message) ==
    IF subs = <<>> THEN <<>>
    ELSE (IF _matches(Head(subs).topic.chars, topic.chars)
          THEN NotifyAll(Head(subs).consumers, topic, message)
          ELSE <<>>)
         \o Dispatch(Tail(subs), topic, message)

\* the mailboxes after the calls
RECURSIVE Deliver(_, _)
Deliver(msgs, calls) ==
    IF calls = <<>> THEN msgs
    ELSE Deliver(receive_message(msgs, Head(calls)[1], Head(calls)[2],
                                 Head(calls)[3]),
                 Tail(calls))

publish(subs, msgs, topic, message) ==
    IF ~_is_valid_topic(topic)
    THEN [raised |-> "ValueError", branch |-> "invalid", messages |-> msgs,
          calls |-> <<>>]
    ELSE LET calls == Dispatch(subs, topic, message)
         IN  [raised |-> "None", branch |-> "dispatched",
              messages |-> Deliver(msgs, calls), calls |-> calls]

(***************************************************************************)
(* MessageBroker.list_subscriptions: the dict returned, as its items in    *)
(* iteration order.                                                        *)
(***************************************************************************)
\* (mutant) each name listed once per pattern
list_subscriptions_unique(subs) ==
    [i \in 1..Len(subs) |->
        <<subs[i].topic,
          Unique([j \in 1..Len(subs[i].consumers) |->
                     name(subs[i].consumers[j])])>>]

list_subscriptions(subs) ==
    [i \in 1..Len(subs) |->
        <<subs[i].topic,
          [j \in 1..Len(subs[i].consumers) |-> name(subs[i].consumers[j])]>>]

(***************************************************************************)
(* The record of a call.  The arguments of a broker call are not kept (a   *)
(* step is told by its action); those of a _matches call are.              *)
(***************************************************************************)
NoCall ==
    [op |-> "__init__", branch |-> "", raised |-> "None", calls |-> <<>>,
     result |-> <<>>, args |-> <<>>, matched |-> FALSE]

\* registrations held over all patterns
RECURSIVE TotalSubs(_)
TotalSubs(subs) ==
    IF subs = <<>> THEN 0
    ELSE Len(Head(subs).consumers) + TotalSubs(Tail(subs))

\* entries held by all mailboxes
RECURSIVE TotalMail(_, _)
TotalMail(msgs, cs) ==
    IF cs = {} THEN 0
    ELSE LET c == CHOOSE x \in cs : TRUE
         IN  Len(msgs[c]) + TotalMail(msgs, cs \ {c})

\* no unsubscribe call is under observation
NoWatch ==
    [on |-> FALSE, consumer |-> "", topic |-> NoneValue, sole |-> FALSE]

\* no subscribe call is observed
NoTrip ==
    [stage |-> "idle", consumer |-> "", topic |-> NoneValue, before |-> <<>>,
     fresh |-> FALSE]

\* no publish call runs in a thread of its own
IdlePublish ==
    [pc |-> "idle", topic |-> NoneValue, message |-> "", di_used |-> 0,
     di_pos |-> 0, consumers |-> NoneValue, li |-> 0, calls |-> <<>>,
     raised |-> "None"]

\* no subscribe or unsubscribe call runs in a thread of its own
IdleCall ==
    [pc |-> "idle", consumer |-> "", topic |-> NoneValue, raised |-> "None"]

\* no call has run while a publish did
NoRace ==
    [overlapped |-> FALSE, hazard |-> FALSE, call_before |-> <<>>,
     before |-> <<>>, after |-> <<>>]

\* FILE_SERVER_ROOT_PATH
root_path == <<"/", "r">>

\* the paths of the events: a file "a", a file "b" and a file whose name is
\* one blank, all in the root directory
Paths ==
    { root_path \o <<"/", "a">>, root_path \o <<"/", "b">>,
      root_path \o <<"/", " ">> }

\* file_versions.get(file_path) of a path that is no key: None
NoVersion == [kind |-> "None", lines |-> <<>>]

\* no on_modified call was made
NoEvent ==
    [is_directory |-> FALSE, src_path |-> <<>>, calls |-> <<>>,
     raised |-> "None"]

(***************************************************************************)
(* Init: MessageBroker.__init__, Consumer.__init__ and                     *)
(* FileChangeMonitor.__init__.                                             *)
(***************************************************************************)
Init ==
    /\ subscriptions = <<>>
    /\ messages = [c \in Consumers |-> <<>>]
    /\ last = NoCall
    /\ watch = NoWatch
    /\ published = <<>>
    /\ early = {}
    /\ trip = NoTrip
    /\ pub = IdlePublish
    /\ mut = IdleCall
    /\ race = NoRace
    /\ file_versions = [path \in Paths |-> NoVersion]
    /\ audit_log = <<>>
    /\ handler = NoEvent

(***************************************************************************)
(* Actions: one per call.                                                  *)
(***************************************************************************)
\* consumer.subscribe(broker, topic), which is broker.subscribe(consumer, topic)
Subscribe(c, topic) ==
    LET r == subscribe(subscriptions, c, topic)
    IN  /\ subscriptions' = r.subscriptions
        /\ last' = [NoCall EXCEPT !.op = "subscribe", !.branch = r.branch,
                                  !.raised = r.raised]
        /\ UNCHANGED messages

\* broker.unsubscribe(consumer, topic)
Unsubscribe(c, topic) ==
    LET r == unsubscribe(subscriptions, c, topic)
    IN  /\ subscriptions' = r.subscriptions
        /\ last' = [NoCall EXCEPT !.op = "unsubscribe", !.branch = r.branch,
                                  !.raised = r.raised]
        /\ UNCHANGED messages

\* (mutant) a publish that drops the entries it has delivered to
Publish_pruning(topic, message) ==
    LET r == publish(subscriptions, messages, topic, message)
        Kept(entry) == ~_matches(entry.topic.chars, topic.chars)
    IN  /\ messages' = r.messages
        /\ last' = [NoCall EXCEPT !.op = "publish", !.branch = r.branch,
                                  !.raised = r.raised, !.calls = r.calls]
        /\ subscriptions' = IF r.raised = "None"
                            THEN SelectSeq(subscriptions, Kept)
                            ELSE subscriptions

\* broker.publish(topic, message)
Publish(topic, message) ==
    LET r == publish(subscriptions, messages, topic, message)
    IN  /\ messages' = r.messages
        /\ last' = [NoCall EXCEPT !.op = "publish", !.branch = r.branch,
                                  !.raised = r.raised, !.calls = r.calls]
        /\ UNCHANGED subscriptions

\* producer.publish(topic, message): self.broker.publish(topic, message)
ProducerPublish(topic, message) == Publish(topic, message)

\* broker.list_subscriptions()
ListSubscriptions ==
    /\ last' = [NoCall EXCEPT !.op = "list_subscriptions",
                              !.result = list_subscriptions(subscriptions)]
    /\ UNCHANGED <<subscriptions, messages>>

\* broker._matches(subscription, topic) on two strings
Matches(subscription, topic) ==
    /\ last' = [NoCall EXCEPT !.op = "_matches",
                              !.args = <<subscription, topic>>,
                              !.matched = _matches(subscription, topic)]
    /\ UNCHANGED <<subscriptions, messages>>

\* the mailboxes stay within the bound
MailFits == TotalMail(messages', Consumers) <= MaxMail

Next ==
    \/ /\ TotalSubs(subscriptions) < MaxSubs
       /\ \E c \in Consumers, topic \in TopicArgs : Subscribe(c, topic)
       /\ UNCHANGED <<hist, conc, mon>>
    \/ /\ \E c \in Consumers, topic \in TopicArgs : Unsubscribe(c, topic)
       /\ UNCHANGED <<hist, conc, mon>>
    \/ /\ \E topic \in TopicArgs, message \in Messages :
              Publish(topic, message) /\ MailFits
       /\ UNCHANGED <<hist, conc, mon>>
    \/ /\ \E topic \in TopicArgs, message \in Messages :
              ProducerPublish(topic, message) /\ MailFits
       /\ UNCHANGED <<hist, conc, mon>>
    \/ ListSubscriptions /\ UNCHANGED <<hist, conc, mon>>

Spec == Init /\ [][Next]_vars

(***************************************************************************)
(* The matcher on every pair of strings up to MaxLen, and the scenario of  *)
(* test_simple_subscription and test_wildcard_subscription on them: one    *)
(* consumer subscribes once on a fresh broker, one message is published.   *)
(***************************************************************************)
NextMatch ==
    \/ /\ last = NoCall
       /\ \E subscription \in Strings, topic \in Strings :
              Matches(subscription, topic)
       /\ UNCHANGED <<hist, conc, mon>>
    \/ /\ last = NoCall
       /\ \E c \in Consumers, subscription \in Strings :
              Subscribe(c, Str(subscription))
       /\ UNCHANGED <<hist, conc, mon>>
    \/ /\ subscriptions # <<>>
       /\ TotalMail(messages, Consumers) = 0
       /\ \E topic \in Strings, message \in Messages :
              ProducerPublish(Str(topic), message)
       /\ UNCHANGED <<hist, conc, mon>>

SpecMatch == Init /\ [][NextMatch]_vars

(***************************************************************************)
(* What the properties below speak of, stated apart from the code's        *)
(* operators.                                                              *)
(***************************************************************************)
\* a value that is no str, or a str that is empty or whitespace only
InvalidArg(v) ==
    \/ v.kind # "str"
    \/ \A i \in 1..Len(v.chars) : v.chars[i] \in Whitespace

\* the string holds the wildcard marker
HasMarker(s) == \E i \in 1..Len(s) : s[i] = "~"

\* the text before the first wildcard marker of a string that holds one
BeforeFirstMarker(s) ==
    LET i == CHOOSE k \in 1..Len(s) :
                 s[k] = "~" /\ \A j \in 1..(k - 1) : s[j] # "~"
    IN  SubSeq(s, 1, i - 1)

\* p is a prefix of s
IsPrefixOf(p, s) == \E n \in 0..Len(s) : p = SubSeq(s, 1, n)

\* the registrations <<i, j>> (entry i, place j in its list) whose pattern
\* matches the topic
MatchingSlots(subs, topic) ==
    {slot \in (1..Len(subs)) \X (1..MaxSubs + 1) :
        /\ slot[2] <= Len(subs[slot[1]].consumers)
        /\ _matches(subs[slot[1]].topic.chars, topic.chars)}

\* registry order: by entry, then by place in the entry's list
SlotBefore(p, q) == p[1] < q[1] \/ (p[1] = q[1] /\ p[2] < q[2])

\* the receive_message calls of a publish, as the registry orders them
CallsAreTheMatchingSlots(calls, subs, topic, message) ==
    LET slots == MatchingSlots(subs, topic)
    IN  /\ Len(calls) = Cardinality(slots)
        /\ \A slot \in slots :
              calls[Cardinality({q \in slots : SlotBefore(q, slot)}) + 1]
                  = <<subs[slot[1]].consumers[slot[2]], topic, message>>

\* what the calls append to the mailbox of c
Received(calls, c) ==
    LET ForC(call) == call[1] = c
        mine == SelectSeq(calls, ForC)
    IN  [k \in 1..Len(mine) |-> <<mine[k][2], mine[k][3]>>]

\* what a publish step with a valid topic does
C1_PublishStep(topic, message) ==
    /\ last'.raised = "None"
    /\ CallsAreTheMatchingSlots(last'.calls, subscriptions, topic, message)
    /\ \A c \in Consumers :
          messages'[c] = messages[c] \o Received(last'.calls, c)

(***************************************************************************)
(* C1.  A publish with a valid topic, made on the broker or through a      *)
(* producer, raises nothing and calls receive_message once per             *)
(* registration whose pattern matches, patterns in insertion order and     *)
(* consumers in subscription order; these calls, and nothing else, are     *)
(* what the mailboxes gain.                                                *)
(***************************************************************************)
C1_PublishDeliversInRegistryOrder ==
    [][\A topic \in TopicArgs, message \in Messages :
          ~InvalidArg(topic) =>
              /\ Publish(topic, message) => C1_PublishStep(topic, message)
              /\ ProducerPublish(topic, message)
                     => C1_PublishStep(topic, message)]_vars

\* a publish of "a~" that passed over the older entry "a", which does not
\* match, and reached the two consumers of the entry "a~" in the order they
\* subscribed
C1_Witness ==
    /\ last.op = "publish"
    /\ subscriptions =
           << [topic |-> Str(<<"a">>), consumers |-> <<"consumer">>],
              [topic |-> Str(<<"a", "~">>),
               consumers |-> <<"consumer2", "consumer">>] >>
    /\ last.calls = << <<"consumer2", Str(<<"a", "~">>), "Message1">>,
                       <<"consumer", Str(<<"a", "~">>), "Message1">> >>

(***************************************************************************)
(* C2.  For a pattern holding the marker "~", _matches is true exactly     *)
(* when the text before the first "~" is a prefix of the topic, and the    *)
(* text after the first "~" has no part in the result.                     *)
(***************************************************************************)
C2_WildcardMatchesByPrefix ==
    (last.op = "_matches" /\ HasMarker(last.args[1])) =>
        LET prefix == BeforeFirstMarker(last.args[1])
            topic == last.args[2]
        IN  /\ last.matched <=> IsPrefixOf(prefix, topic)
            /\ \A rest \in Strings :
                  Len(prefix) + 1 + Len(rest) <= MaxLen =>
                      _matches(prefix \o <<"~">> \o rest, topic)
                          = last.matched

\* a pattern with two markers: only the text before the first counts
C2_Witness ==
    /\ last.op = "_matches"
    /\ last.args = << <<"a", "~", "~">>, <<"a", "A">> >>
    /\ last.matched

(***************************************************************************)
(* C3.  For a pattern without the marker, _matches is true exactly when    *)
(* pattern and topic are the same string, letter case included; and a      *)
(* consumer whose one registration is under such a pattern gains one entry *)
(* from a publish of that very topic and none from any other publish.      *)
(***************************************************************************)
C3_ExactMatchesByEquality ==
    [][/\ (last'.op = "_matches" /\ ~HasMarker(last'.args[1])) =>
              (last'.matched <=> last'.args[1] = last'.args[2])
       /\ \A topic \in Strings, message \in Messages :
              ( /\ ~InvalidArg(Str(topic))
                /\ Len(subscriptions) = 1
                /\ Len(subscriptions[1].consumers) = 1
                /\ ~HasMarker(subscriptions[1].topic.chars)
                /\ ProducerPublish(Str(topic), message) ) =>
                  LET c == subscriptions[1].consumers[1]
                  IN  messages'[c] = messages[c] \o
                          ( IF subscriptions[1].topic.chars = topic
                            THEN << <<Str(topic), message>> >>
                            ELSE <<>> )]_vars

\* the consumer's exact pattern was published and delivered once
C3_Witness ==
    /\ last.op = "publish"
    /\ subscriptions =
           << [topic |-> Str(<<"a", "A">>), consumers |-> <<"consumer">>] >>
    /\ messages["consumer"] = << <<Str(<<"a", "A">>), "Message1">> >>

\* the step of a call that was rejected
C4_Rejected ==
    /\ last'.raised = "ValueError"
    /\ subscriptions' = subscriptions
    /\ messages' = messages

(***************************************************************************)
(* C4.  subscribe and publish with a topic that is no str, is empty or is  *)
(* whitespace only raise ValueError and leave the registry and every       *)
(* mailbox as they were.                                                   *)
(***************************************************************************)
C4_InvalidTopicRejectedWithoutEffect ==
    [][\A topic \in TopicArgs :
          InvalidArg(topic) =>
              /\ \A c \in Consumers : Subscribe(c, topic) => C4_Rejected
              /\ \A message \in Messages :
                    /\ Publish(topic, message) => C4_Rejected
                    /\ ProducerPublish(topic, message) => C4_Rejected]_vars

\* an invalid subscribe was rejected while registrations and mail exist
C4_Witness ==
    /\ last.op = "subscribe"
    /\ last.raised = "ValueError"
    /\ subscriptions # <<>>
    /\ \E c \in Consumers : messages[c] # <<>>

(***************************************************************************)
(* The broker with one unsubscribe call kept under observation.  Any call  *)
(* that removes a registration may become the observed one; watch then     *)
(* keeps its consumer and pattern, and whether the registration removed    *)
(* was the consumer's only one matching the topic equal to that pattern.   *)
(* The observation ends when the consumer subscribes again to a pattern    *)
(* matching that topic.  The calls are those that reach the registry or a  *)
(* mailbox: subscribe, unsubscribe and publish, with the two valid         *)
(* patterns and one invalid argument.                                      *)
(***************************************************************************)
WatchArgs == {Str(<<" ">>), Str(<<"a">>), Str(<<"a", "~">>)}

\* the registrations of c whose pattern matches the topic
MatchingSlotsOf(subs, c, topic) ==
    {slot \in MatchingSlots(subs, topic) :
        subs[slot[1]].consumers[slot[2]] = c}

WatchAfterSubscribe(c, topic) ==
    IF /\ watch.on
       /\ c = watch.consumer
       /\ ~InvalidArg(topic)
       /\ _matches(topic.chars, watch.topic.chars)
    THEN NoWatch
    ELSE watch

WatchAfterUnsubscribe(c, topic) ==
    IF /\ ~watch.on
       /\ HasKey(subscriptions, topic)
       /\ InList(subscriptions[KeyIndex(subscriptions, topic)].consumers, c)
    THEN {watch,
          [on |-> TRUE, consumer |-> c, topic |-> topic,
           sole |-> Cardinality(MatchingSlotsOf(subscriptions, c, topic))
                        = 1]}
    ELSE {watch}

NextWatch ==
    \/ /\ TotalSubs(subscriptions) < MaxSubs
       /\ \E c \in Consumers, topic \in WatchArgs :
              Subscribe(c, topic) /\ watch' = WatchAfterSubscribe(c, topic)
       /\ UNCHANGED <<published, early, trip, conc, mon>>
    \/ /\ \E c \in Consumers, topic \in WatchArgs :
              Unsubscribe(c, topic)
                  /\ watch' \in WatchAfterUnsubscribe(c, topic)
       /\ UNCHANGED <<published, early, trip, conc, mon>>
    \/ /\ \E topic \in WatchArgs, message \in Messages :
              Publish(topic, message) /\ MailFits
       /\ UNCHANGED <<hist, conc, mon>>

SpecWatch == Init /\ [][NextWatch]_vars

\* a publish of the observed pattern leaves the observed consumer's mailbox
\* as it was
C5_WatchedPublishAddsNothing ==
    \A message \in Messages :
        /\ Publish(watch.topic, message)
               => messages'[watch.consumer] = messages[watch.consumer]
        /\ ProducerPublish(watch.topic, message)
               => messages'[watch.consumer] = messages[watch.consumer]

\* the observed unsubscribe itself, and every call after it, leaves what
\* the observed consumer holds as the front of its mailbox
C5_PriorEntriesRemain ==
    watch'.on =>
        IsPrefixOf(messages[watch'.consumer], messages'[watch'.consumer])

(***************************************************************************)
(* C5 as claimed.  After unsubscribe(consumer, pattern) has returned for a *)
(* consumer that was subscribed to the pattern, no later publish of a      *)
(* topic equal to the pattern extends the consumer's mailbox, and what it  *)
(* received before remains.  (Read in the claim's favour: until the        *)
(* consumer subscribes again to a pattern matching that topic.)            *)
(***************************************************************************)
C5_AsClaimed ==
    [][/\ watch.on => C5_WatchedPublishAddsNothing
       /\ C5_PriorEntriesRemain]_vars

(***************************************************************************)
(* C5 as amended.  After unsubscribe(consumer, pattern) has returned       *)
(* having removed the consumer's only registration whose pattern matches   *)
(* the topic equal to the pattern, and until the consumer subscribes again *)
(* to a pattern matching that topic, no publish of that topic extends the  *)
(* consumer's mailbox; and what the consumer received before the           *)
(* unsubscribe remains, unchanged, the front of its mailbox.               *)
(***************************************************************************)
C5_UnsubscribeOfSoleRegistrationStopsDelivery ==
    [][/\ (watch.on /\ watch.sole) => C5_WatchedPublishAddsNothing
       /\ C5_PriorEntriesRemain]_vars

\* after the observed unsubscribe, a publish of its pattern was delivered,
\* to the other consumer only, while the observed consumer holds an entry
\* from before
C5_Witness ==
    /\ watch.on /\ watch.sole
    /\ messages[watch.consumer] # <<>>
    /\ last.op = "publish"
    /\ last.calls # <<>>
    /\ \A k \in 1..Len(last.calls) :
          last.calls[k][1] # watch.consumer /\ last.calls[k][2] = watch.topic

(***************************************************************************)
(* C6.  unsubscribe of a consumer from a pattern that is a key while the   *)
(* consumer is not in that pattern's list raises ValueError, and the       *)
(* registry (keys, lists, their order) is unchanged.                       *)
(***************************************************************************)
C6_NotSubscribedRaises ==
    [][\A c \in Consumers, topic \in TopicArgs :
          ( /\ HasKey(subscriptions, topic)
            /\ ~InList(subscriptions[KeyIndex(subscriptions, topic)].consumers,
                       c)
            /\ Unsubscribe(c, topic) ) =>
              /\ last'.raised = "ValueError"
              /\ subscriptions' = subscriptions]_vars

C6_Witness ==
    /\ last.op = "unsubscribe"
    /\ last.raised = "ValueError"
    /\ Len(subscriptions) = 2

C8_NoEmptyEntry ==
    \A i \in 1..Len(subscriptions) : subscriptions[i].consumers # <<>>

\* the last consumer of a pattern has left while another pattern remains
C8_Witness ==
    /\ last.op = "unsubscribe"
    /\ last.branch = "deleted"
    /\ subscriptions # <<>>

(***************************************************************************)
(* C9.  Every key of the registry is a str with at least one character     *)
(* that is not whitespace.                                                 *)
(***************************************************************************)
C9_KeysAreValid ==
    \A i \in 1..Len(subscriptions) : ~InvalidArg(subscriptions[i].topic)

\* an invalid subscribe was attempted on a registry of two patterns
C9_Witness ==
    /\ last.op = "subscribe"
    /\ last.branch = "invalid"
    /\ Len(subscriptions) = 2

(***************************************************************************)
(* C10.  list_subscriptions returns one entry per pattern of the registry  *)
(* and no other, each holding the names of the pattern's consumers in      *)
(* subscription order, one name per registration.                          *)
(***************************************************************************)
C10_ListReflectsRegistry ==
    last.op = "list_subscriptions" =>
        /\ \A i \in 1..Len(subscriptions) :
              LET at == {k \in 1..Len(last.result) :
                            last.result[k][1] = subscriptions[i].topic}
              IN  /\ Cardinality(at) = 1
                  /\ \A k \in at :
                        /\ Len(last.result[k][2])
                               = Len(subscriptions[i].consumers)
                        /\ \A j \in 1..Len(subscriptions[i].consumers) :
                              last.result[k][2][j]
                                  = name(subscriptions[i].consumers[j])
        /\ \A k \in 1..Len(last.result) :
              HasKey(subscriptions, last.result[k][1])

\* a listing with a consumer registered twice under one pattern
C10_Witness ==
    /\ last.op = "list_subscriptions"
    /\ last.result = << <<Str(<<"a">>), <<"TestConsumer", "NewConsumer",
                                          "TestConsumer">> >> >>

(***************************************************************************)
(* What the next properties speak of.                                      *)
(***************************************************************************)
\* the pattern matches the topic, as section 4.1 words it: an exact pattern
\* is the topic; the text before the first marker of a wildcard pattern is a
\* prefix of the topic
PatternCovers(pattern, topic) ==
    IF HasMarker(pattern)
    THEN IsPrefixOf(BeforeFirstMarker(pattern), topic)
    ELSE pattern = topic

\* how many registrations of c, over all patterns, cover the topic
RECURSIVE CoveringRegistrations(_, _, _)
CoveringRegistrations(subs, c, topic) ==
    IF subs = <<>> THEN 0
    ELSE (IF PatternCovers(Head(subs).topic.chars, topic.chars)
          THEN Cardinality({j \in 1..Len(Head(subs).consumers) :
                               Head(subs).consumers[j] = c})
          ELSE 0)
         + CoveringRegistrations(Tail(subs), c, topic)

\* n copies of x
Copies(n, x) == [k \in 1..n |-> x]

\* what a successful publish adds to each mailbox
C11_PublishStep(topic, message) ==
    \A c \in Consumers :
        messages'[c] =
            messages[c] \o
            Copies(CoveringRegistrations(subscriptions, c, topic),
                   <<topic, message>>)

(***************************************************************************)
(* C11.  Deliveries are not deduplicated: a publish with a valid topic     *)
(* extends each consumer's mailbox by exactly one (topic, message) entry   *)
(* per registration of the consumer whose pattern matches the topic, a     *)
(* registration repeated under one pattern and registrations under several *)
(* matching patterns counting each.                                        *)
(***************************************************************************)
C11_OneEntryPerMatchingRegistration ==
    [][last'.op = "publish" =>
          \A topic \in TopicArgs, message \in Messages :
              ~InvalidArg(topic) =>
                  /\ Publish(topic, message)
                         => C11_PublishStep(topic, message)
                  /\ ProducerPublish(topic, message)
                         => C11_PublishStep(topic, message)]_vars

\* one publish of "a" gave two entries to a consumer registered twice under
\* the pattern "a"
C11_Witness ==
    /\ last.op = "publish"
    /\ \E i \in 1..Len(subscriptions) :
          /\ subscriptions[i].topic = Str(<<"a">>)
          /\ subscriptions[i].consumers = <<"consumer", "consumer">>
    /\ last.calls = << <<"consumer", Str(<<"a">>), "Message1">>,
                       <<"consumer", Str(<<"a">>), "Message1">> >>
    /\ messages["consumer"] = << <<Str(<<"a">>), "Message1">>,
                                 <<Str(<<"a">>), "Message1">> >>

(***************************************************************************)
(* C12.  A publish leaves the mailbox of every consumer that has no        *)
(* registration under a pattern matching the topic as it was, whatever the *)
(* other consumers receive in the same publish.                            *)
(***************************************************************************)
C12_NonMatchingMailboxUnchanged ==
    [][last'.op = "publish" =>
          \A topic \in TopicArgs, message \in Messages :
              (Publish(topic, message) \/ ProducerPublish(topic, message)) =>
                  \A c \in Consumers :
                      CoveringRegistrations(subscriptions, c, topic) = 0
                          => messages'[c] = messages[c]]_vars

\* a publish of "a~" reached consumer2, registered under "a~", and left the
\* mailbox of consumer, registered under "a" only, empty
C12_Witness ==
    /\ last.op = "publish"
    /\ subscriptions =
           << [topic |-> Str(<<"a">>), consumers |-> <<"consumer">>],
              [topic |-> Str(<<"a", "~">>), consumers |-> <<"consumer2">>] >>
    /\ last.calls = << <<"consumer2", Str(<<"a", "~">>), "Message1">> >>
    /\ messages["consumer"] = <<>>
    /\ messages["consumer2"] = << <<Str(<<"a", "~">>), "Message1">> >>

(***************************************************************************)
(* The broker with the history of its publishes.  The k-th publish that is *)
(* not rejected carries the payload k ("Message1", "Message2", ... in      *)
(* test_wildcard_subscription and test_only_wildcard_subscription), so an  *)
(* entry of a mailbox tells which publish delivered it.  The patterns are  *)
(* the match-all pattern "~" and the exact pattern "a"; the topics         *)
(* published are "a" (matched by both), "a~" (matched by "~" only) and a   *)
(* whitespace topic, whose publish is rejected and not recorded.           *)
(***************************************************************************)
OrderPatterns == {Str(<<"~">>), Str(<<"a">>)}

OrderTopics == {Str(<<"a">>), Str(<<"a", "~">>), Str(<<" ">>)}

\* the patterns of the registrations of c, one per registration
RECURSIVE PatternsOf(_, _)
PatternsOf(subs, c) ==
    IF subs = <<>> THEN <<>>
    ELSE LET IsC(x) == x = c
         IN  Copies(Len(SelectSeq(Head(subs).consumers, IsC)),
                    Head(subs).topic)
             \o PatternsOf(Tail(subs), c)

\* early after a subscribe or unsubscribe call of c: before the first
\* publish, c is in early exactly when its registrations are one, under "~";
\* afterwards, any change of its registrations takes it out
EarlyAfter(c) ==
    IF subscriptions' = subscriptions THEN early
    ELSE IF published = <<>> /\ PatternsOf(subscriptions', c) = <<Str(<<"~">>)>>
    THEN early \cup {c}
    ELSE early \ {c}

\* published after a publish call
PublishedAfter(topic, message) ==
    IF last'.raised = "None" THEN Append(published, <<topic, message>>)
    ELSE published

NextOrder ==
    \/ /\ TotalSubs(subscriptions) < MaxSubs
       /\ \E c \in Consumers, topic \in OrderPatterns :
              Subscribe(c, topic) /\ early' = EarlyAfter(c)
       /\ UNCHANGED <<watch, published, trip, conc, mon>>
    \/ /\ \E c \in Consumers, topic \in OrderPatterns :
              Unsubscribe(c, topic) /\ early' = EarlyAfter(c)
       /\ UNCHANGED <<watch, published, trip, conc, mon>>
    \/ /\ Len(published) < MaxPub
       /\ \E topic \in OrderTopics :
              LET message == Len(published) + 1
              IN  /\ Publish(topic, message)
                  /\ MailFits
                  /\ published' = PublishedAfter(topic, message)
       /\ UNCHANGED <<watch, early, trip, conc, mon>>

SpecOrder == Init /\ [][NextOrder]_vars

(***************************************************************************)
(* C13.  In every mailbox the entries stand in the order of the publishes  *)
(* that delivered them: each entry is the (topic, message) pair of one     *)
(* recorded publish, and an entry of an earlier publish never stands       *)
(* behind an entry of a later one.                                         *)
(***************************************************************************)
C13_MailboxFollowsPublishOrder ==
    \A c \in Consumers :
        /\ \A i \in 1..Len(messages[c]) :
              /\ messages[c][i][2] \in 1..Len(published)
              /\ messages[c][i] = published[messages[c][i][2]]
        /\ \A i, j \in 1..Len(messages[c]) :
              i < j => messages[c][i][2] <= messages[c][j][2]

\* a mailbox holding an entry of the first publish in front of an entry of
\* the second, the two published under different topics
C13_Witness ==
    /\ Len(published) = 2
    /\ \E c \in Consumers :
          /\ Len(messages[c]) = 2
          /\ messages[c][1][2] = 1
          /\ messages[c][2][2] = 2
          /\ messages[c][1][1] # messages[c][2][1]

(***************************************************************************)
(* C14.  A mailbox only grows: over every call (subscribe, unsubscribe,    *)
(* publish, list_subscriptions; completed or rejected) what a consumer     *)
(* held before the call is the front of what it holds after it.            *)
(***************************************************************************)
C14_MailboxOnlyGrows ==
    [][\A c \in Consumers : IsPrefixOf(messages[c], messages'[c])]_vars

\* a second publish was delivered behind the entry of a first one
C14_Witness ==
    /\ last.op = "publish"
    /\ last.calls = << <<"consumer", Str(<<"a", "~">>), "Message1">> >>
    /\ messages["consumer"] = << <<Str(<<"a">>), "Message1">>,
                                 <<Str(<<"a", "~">>), "Message1">> >>

\* _matches is true of the pattern "~" and every string
C15_TildeMatchesAll == \A topic \in Strings : _matches(<<"~">>, topic)

(***************************************************************************)
(* C15.  The pattern "~" matches every valid topic: a consumer that has    *)
(* held one registration, under "~", and no other since before the first   *)
(* publish holds in its mailbox the (topic, message) pairs of all the      *)
(* publishes made and not rejected so far, in the order they were made.    *)
(***************************************************************************)
C15_MatchAllReceivesEveryPublish ==
    /\ C15_TildeMatchesAll
    /\ \A c \in early : messages[c] = published

\* two publishes of different topics, both held by the "~" consumer, while
\* the other consumer is registered too
C15_Witness ==
    /\ early # {}
    /\ Len(published) = 2
    /\ published[1][1] # published[2][1]
    /\ \E c \in Consumers \ early : PatternsOf(subscriptions, c) # <<>>
    /\ \A c \in early : Len(messages[c]) = 2

(***************************************************************************)
(* C16.  unsubscribe does not validate its pattern: called with a pattern  *)
(* that is no str, is empty or is whitespace only, in any state of the     *)
(* registry, it raises nothing (no ValueError in particular) and leaves    *)
(* the registry and the mailboxes as they were.                            *)
(***************************************************************************)
C16_UnsubscribeNeverRejectsTopic ==
    [][last'.op = "unsubscribe" =>
          \A c \in Consumers, topic \in TopicArgs :
              (InvalidArg(topic) /\ Unsubscribe(c, topic)) =>
                  /\ last'.raised = "None"
                  /\ subscriptions' = subscriptions
                  /\ messages' = messages]_vars

\* an unsubscribe found its pattern absent while both valid patterns are
\* keys: its pattern was one of the invalid ones
C16_Witness ==
    /\ last.op = "unsubscribe"
    /\ last.branch = "absent"
    /\ last.raised = "None"
    /\ \A topic \in TopicArgs :
          ~InvalidArg(topic) => HasKey(subscriptions, topic)

\* the first place of x in a list that holds it
FirstPlace(lst, x) ==
    CHOOSE k \in 1..Len(lst) : lst[k] = x /\ \A j \in 1..(k - 1) : lst[j] # x

\* the sequence without its k-th element, the others in their order
Without(seq, k) ==
    [i \in 1..(Len(seq) - 1) |-> IF i < k THEN seq[i] ELSE seq[i + 1]]

(***************************************************************************)
(* C17.  unsubscribe of a consumer from a pattern whose list holds it      *)
(* raises nothing and removes one entry, the first occurrence of the       *)
(* consumer in that list: the other entries of the list, later occurrences *)
(* of the consumer among them, keep their order; the other patterns, their *)
(* lists and their order are unchanged; and the pattern's key is deleted   *)
(* exactly when its list became empty.                                     *)
(***************************************************************************)
C17_UnsubscribeRemovesFirstOccurrence ==
    [][\A c \in Consumers, topic \in TopicArgs :
          ( /\ last'.op = "unsubscribe"
            /\ HasKey(subscriptions, topic)
            /\ InList(subscriptions[KeyIndex(subscriptions, topic)].consumers,
                      c)
            /\ Unsubscribe(c, topic) ) =>
              LET k == KeyIndex(subscriptions, topic)
                  lst == subscriptions[k].consumers
                  rest == Without(lst, FirstPlace(lst, c))
              IN  /\ last'.raised = "None"
                  /\ messages' = messages
                  /\ subscriptions' =
                         IF rest = <<>> THEN Without(subscriptions, k)
                         ELSE [subscriptions EXCEPT ![k].consumers = rest]]_vars

\* an unsubscribe left the list <<consumer2, consumer>> under "a": the list
\* before held three entries, and the one removed was the first occurrence
\* of its consumer, with other entries behind it
C17_Witness ==
    /\ last.op = "unsubscribe"
    /\ last.branch = "removed"
    /\ subscriptions =
           << [topic |-> Str(<<"a">>),
               consumers |-> <<"consumer2", "consumer">>] >>

(***************************************************************************)
(* The broker called from two threads.  The broker takes no lock, so the   *)
(* interpreter may switch threads between any two bytecodes.  One thread   *)
(* runs publish, the other runs subscribe and unsubscribe calls; a step    *)
(* below is a stretch of one call's code that reads or writes the          *)
(* registry once.  publish: the validation; GET_ITER on                    *)
(* self.subscriptions.items(), which notes the size of the dict; each      *)
(* FOR_ITER of the outer loop, which raises RuntimeError when the size has *)
(* changed, with the _matches test; each FOR_ITER of the inner loop, which *)
(* reads the list at its current index, with the receive_message call.     *)
(* subscribe: the validation with the creation of the key; the append.     *)
(* unsubscribe: the lookup with list.remove; the deletion of the key.      *)
(*                                                                         *)
(* The scenario: calls of the second thread build a registry; one publish  *)
(* runs, and at most one subscribe or unsubscribe call runs while it does  *)
(* (started before it and finished during it, or started during it).       *)
(***************************************************************************)
ConcArgs == {Str(<<" ">>), Str(<<"a">>), Str(<<"a", "~">>)}

ConcTopics == {Str(<<" ">>), Str(<<"a">>)}

\* the publish holds a live iterator over the dict: GET_ITER was done and
\* FOR_ITER has not yet ended the loop
Iterating == pub.pc \in {"outer", "inner"}

\* the publish has started and not ended
Running == pub.pc \in {"iter", "outer", "inner"}

\* a call of the second thread may start: none is in progress, and the
\* publish has not started, or runs and no call has run beside it yet
MayStart ==
    /\ mut.pc = "idle"
    /\ pub.pc = "idle" \/ (Running /\ ~race.overlapped)

\* the history when a call of the second thread starts
RaceAtStart(hazard) ==
    [race EXCEPT !.overlapped = @ \/ Running,
                 !.before = IF Running THEN subscriptions ELSE @,
                 !.call_before = subscriptions,
                 !.hazard = @ \/ hazard]

\* (mutant) the consumer put at the front of the list
ListAppend_front(lst, x) == <<x>> \o lst

\* list.append(x)
ListAppend(lst, x) == Append(lst, x)

\* subscribe up to the creation of the key; the append too when the key is
\* there already
SubscribeBegin(c, topic) ==
    /\ MayStart
    /\ TotalSubs(subscriptions) < MaxSubs
    /\ IF ~_is_valid_topic(topic)
       THEN /\ mut' = [IdleCall EXCEPT !.raised = "ValueError"]
            /\ race' = RaceAtStart(FALSE)
            /\ UNCHANGED subscriptions
       ELSE IF ~HasKey(subscriptions, topic)
       THEN /\ subscriptions' =
                   Append(subscriptions, [topic |-> topic, consumers |-> <<>>])
            /\ mut' = [IdleCall EXCEPT !.pc = "append", !.consumer = c,
                                       !.topic = topic]
            /\ race' = RaceAtStart(Iterating)
       ELSE /\ subscriptions' =
                   [subscriptions EXCEPT
                       ![KeyIndex(subscriptions, topic)].consumers =
                           ListAppend(@, c)]
            /\ mut' = IdleCall
            /\ race' = RaceAtStart(FALSE)
    /\ UNCHANGED <<messages, last, pub, hist, mon>>

\* self.subscriptions[topic].append(consumer) on the key just created
SubscribeAppend ==
    /\ mut.pc = "append"
    /\ subscriptions' =
           [subscriptions EXCEPT
               ![KeyIndex(subscriptions, mut.topic)].consumers =
                   ListAppend(@, mut.consumer)]
    /\ mut' = IdleCall
    /\ UNCHANGED <<messages, last, pub, race, hist, mon>>

\* unsubscribe up to list.remove
UnsubscribeBegin(c, topic) ==
    /\ MayStart
    /\ IF ~HasKey(subscriptions, topic)
       THEN /\ mut' = IdleCall
            /\ race' = RaceAtStart(FALSE)
            /\ UNCHANGED subscriptions
       ELSE LET k == KeyIndex(subscriptions, topic)
                lst == subscriptions[k].consumers
            IN  IF ~InList(lst, c)
                THEN /\ mut' = [IdleCall EXCEPT !.raised = "ValueError"]
                     /\ race' = RaceAtStart(FALSE)
                     /\ UNCHANGED subscriptions
                ELSE /\ subscriptions' =
                            [subscriptions EXCEPT
                                ![k].consumers = ListRemove(@, c)]
                     /\ mut' = IF subscriptions'[k].consumers = <<>>
                               THEN [IdleCall EXCEPT !.pc = "del",
                                                     !.topic = topic]
                               ELSE IdleCall
                     /\ race' = RaceAtStart(/\ pub.pc = "inner"
                                            /\ pub.consumers = topic
                                            /\ find(lst, c, 1) <= pub.li)
    /\ UNCHANGED <<messages, last, pub, hist, mon>>

\* del self.subscriptions[topic]
UnsubscribeDel ==
    /\ mut.pc = "del"
    /\ subscriptions' = DelKey(subscriptions, mut.topic)
    /\ mut' = IdleCall
    /\ race' = [race EXCEPT !.hazard = @ \/ Iterating]
    /\ UNCHANGED <<messages, last, pub, hist, mon>>

\* the registry once the call in progress in the second thread has ended
RegistryAfterCall ==
    IF mut.pc = "append"
    THEN [subscriptions EXCEPT
             ![KeyIndex(subscriptions, mut.topic)].consumers =
                 ListAppend(@, mut.consumer)]
    ELSE IF mut.pc = "del" THEN DelKey(subscriptions, mut.topic)
    ELSE subscriptions

\* the history when the publish ends
RaceAtEnd == [race EXCEPT !.after = RegistryAfterCall]

\* publish up to the validation of the topic
PublishBegin(topic, message) ==
    /\ pub.pc = "idle"
    /\ pub' = IF ~_is_valid_topic(topic)
              THEN [IdlePublish EXCEPT !.pc = "raised", !.topic = topic,
                                       !.message = message,
                                       !.raised = "ValueError"]
              ELSE [IdlePublish EXCEPT !.pc = "iter", !.topic = topic,
                                       !.message = message]
    /\ race' = [race EXCEPT
                   !.overlapped = mut.pc # "idle",
                   !.before = IF mut.pc # "idle" THEN race.call_before
                              ELSE subscriptions,
                   !.after = IF ~_is_valid_topic(topic) THEN RegistryAfterCall
                             ELSE @]
    /\ UNCHANGED <<subscriptions, messages, last, mut, hist, mon>>

\* GET_ITER on self.subscriptions.items(): the iterator notes the size
PublishIter ==
    /\ pub.pc = "iter"
    /\ pub' = [pub EXCEPT !.pc = "outer", !.di_used = Len(subscriptions),
                          !.di_pos = 0]
    /\ UNCHANGED <<subscriptions, messages, last, mut, race, hist, mon>>

\* FOR_ITER of the outer loop, and the test of _matches on the item
PublishOuterNext ==
    /\ pub.pc = "outer"
    /\ IF Len(subscriptions) # pub.di_used
       THEN /\ pub' = [pub EXCEPT !.pc = "raised", !.raised = "RuntimeError"]
            /\ race' = RaceAtEnd
       ELSE IF pub.di_pos >= Len(subscriptions)
       THEN /\ pub' = [pub EXCEPT !.pc = "done"]
            /\ race' = RaceAtEnd
       ELSE LET item == subscriptions[pub.di_pos + 1]
            IN  /\ pub' = IF _matches(item.topic.chars, pub.topic.chars)
                          THEN [pub EXCEPT !.pc = "inner",
                                           !.di_pos = @ + 1,
                                           !.consumers = item.topic,
                                           !.li = 0]
                          ELSE [pub EXCEPT !.di_pos = @ + 1]
                /\ UNCHANGED race
    /\ UNCHANGED <<subscriptions, messages, last, mut, hist, mon>>

\* the list object the inner loop iterates: the list of the key while the
\* key is there; the list of a key deleted since is empty
IteratedList ==
    IF HasKey(subscriptions, pub.consumers)
    THEN subscriptions[KeyIndex(subscriptions, pub.consumers)].consumers
    ELSE <<>>

\* FOR_ITER of the inner loop, and the receive_message call
PublishInnerNext ==
    /\ pub.pc = "inner"
    /\ IF pub.li < Len(IteratedList)
       THEN LET consumer == IteratedList[pub.li + 1]
            IN  /\ messages' = receive_message(messages, consumer, pub.topic,
                                               pub.message)
                /\ pub' = [pub EXCEPT
                              !.li = @ + 1,
                              !.calls = Append(@, <<consumer, pub.topic,
                                                    pub.message>>)]
       ELSE /\ pub' = [pub EXCEPT !.pc = "outer"]
            /\ UNCHANGED messages
    /\ UNCHANGED <<subscriptions, last, mut, race, hist, mon>>

NextConc ==
    \/ \E c \in Consumers, topic \in ConcArgs : SubscribeBegin(c, topic)
    \/ SubscribeAppend
    \/ \E c \in Consumers, topic \in ConcArgs : UnsubscribeBegin(c, topic)
    \/ UnsubscribeDel
    \/ \E topic \in ConcTopics, message \in Messages :
          PublishBegin(topic, message)
    \/ PublishIter
    \/ PublishOuterNext
    \/ PublishInnerNext

SpecConc == Init /\ [][NextConc]_vars

\* the publish has ended, by returning or by raising in its loop
C18_PublishEnded ==
    /\ pub.pc \in {"done", "raised"}
    /\ pub.raised # "ValueError"

\* the publish returned having made the calls the registry gives
C18_DeliveredAsIn(subs) ==
    /\ pub.pc = "done"
    /\ pub.calls = Dispatch(subs, pub.topic, pub.message)

(***************************************************************************)
(* C18 as claimed.  A publish beside which a subscribe or unsubscribe call *)
(* ran returns, and has delivered to exactly the consumers given by the    *)
(* registry before that call or by the registry after it.                  *)
(***************************************************************************)
C18_AsClaimed ==
    (C18_PublishEnded /\ race.overlapped) =>
        C18_DeliveredAsIn(race.before) \/ C18_DeliveredAsIn(race.after)

\* the larger of two numbers
Max(a, b) == IF a >= b THEN a ELSE b

\* no consumer was called more often than it has registrations under
\* patterns matching the topic, before the call or after it
C18_NoneDeliveredTwice ==
    \A c \in Consumers :
        Len(Received(pub.calls, c)) <=
            Max(CoveringRegistrations(race.before, c, pub.topic),
                CoveringRegistrations(race.after, c, pub.topic))

(***************************************************************************)
(* C18 as amended.  The broker takes no lock.  A publish beside which one  *)
(* subscribe or unsubscribe call ran returns and has delivered to exactly  *)
(* the consumers given by the registry before that call or by the registry *)
(* after it, provided the call neither created nor deleted a pattern key   *)
(* while the publish was iterating the registry, and did not remove an     *)
(* entry the publish had already passed in the list it was iterating.  In  *)
(* those cases the publish may raise RuntimeError after a part of its      *)
(* deliveries, or pass over a consumer that stays subscribed; in no case   *)
(* does it deliver more often to a consumer than the consumer has matching *)
(* registrations.                                                          *)
(***************************************************************************)
C18_PublishBesideOneCall ==
    C18_PublishEnded =>
        /\ ~race.hazard =>
               \/ C18_DeliveredAsIn(race.before)
               \/ C18_DeliveredAsIn(race.after)
        /\ C18_NoneDeliveredTwice

\* a publish returned having delivered to a consumer that a subscribe call,
\* run beside it, appended to the list of a pattern already there
C18_Witness ==
    /\ pub.pc = "done"
    /\ race.overlapped
    /\ ~race.hazard
    /\ C18_DeliveredAsIn(race.after)
    /\ ~C18_DeliveredAsIn(race.before)
    /\ Len(race.after) = Len(race.before)
    /\ TotalSubs(race.after) > TotalSubs(race.before)

(***************************************************************************)
(* The file monitor of file_monitor/monitor.py on the broker.  What lies   *)
(* outside the program is an input of the on_modified call: the event, the *)
(* clock's timestamp, and what reading the file gives at that moment (its  *)
(* lines, or the error raised by open or by readlines).  The text a diff   *)
(* is made of is kept as a tuple of its parts.                             *)
(***************************************************************************)
Timestamps == {"2024-12-06 12:30:45", "2024-12-06 12:30:46"}

\* what fp.readlines() may return
Contents == {<<>>, <<"Line1\n">>}

\* what reading the file does: raise in open (the file is gone), raise in
\* readlines (the file is not UTF-8), or return the lines
ReadOutcomes ==
    {[raised |-> e, lines |-> <<>>] :
        e \in {"FileNotFoundError", "UnicodeDecodeError"}}
    \cup {[raised |-> "None", lines |-> l] : l \in Contents}

\* the pattern of the consumer set up in app.py: "<directory>~"
MonitorPatterns == {Str(<<"a", "~">>)}

\* os.path.relpath(path, start) of a path below start, which the paths of
\* the watch's events are
relpath(path, start) ==
    CASE startswith(path, start \o <<"/">>) ->
             SubSeq(path, Len(start) + 2, Len(path))

_generate_topic_from_file_path(file_path) ==
    Str(relpath(file_path, root_path))

\* '\n'.join(difflib.unified_diff(previous, current, ...)): empty for equal
\* inputs, else the two headers and the hunks, kept as the two inputs
unified_diff(previous, current) ==
    IF previous = current THEN <<>>
    ELSE <<"--- previous", "+++ current", previous, current>>

\* get_file_diff once the file is read: the diff and file_versions after
get_file_diff(versions, file_path, current_content) ==
    LET previous_content == versions[file_path]
    IN  [file_diff |->
             IF previous_content.kind # "None"
                /\ previous_content.lines # <<>>
             THEN unified_diff(previous_content.lines, current_content)
             ELSE <<"+ ", current_content>>,
         file_versions |->
             [versions EXCEPT
                 ![file_path] = [kind |-> "list", lines |-> current_content]]]

\* audit_change_log: the log with the line "<timestamp>, <file_path>\n"
audit_change_log(log, timestamp, file_path) ==
    Append(log, <<timestamp, ", ", file_path, "\n">>)

\* on_modified(event), with publish_file_change and the calls it makes
OnModified(is_directory, src_path, timestamp, read) ==
    LET event == [NoEvent EXCEPT !.is_directory = is_directory,
                                 !.src_path = src_path]
        published_call == <<"publish_file_change", src_path, timestamp>>
        audit_call == <<"audit_change_log", timestamp, src_path>>
    IN  /\ IF is_directory
           THEN /\ handler' = event
                /\ UNCHANGED <<file_versions, audit_log, messages, last>>
           ELSE IF read.raised # "None"
           THEN /\ handler' = [event EXCEPT !.calls = <<published_call>>,
                                            !.raised = read.raised]
                /\ UNCHANGED <<file_versions, audit_log, messages, last>>
           ELSE LET d == get_file_diff(file_versions, src_path, read.lines)
                    topic == _generate_topic_from_file_path(src_path)
                    message == <<"Timestamp: ", timestamp, "\nDiff:\n",
                                 d.file_diff>>
                    r == publish(subscriptions, messages, topic, message)
                IN  /\ file_versions' = d.file_versions
                    /\ messages' = r.messages
                    /\ last' = [NoCall EXCEPT !.op = "publish",
                                              !.branch = r.branch,
                                              !.raised = r.raised,
                                              !.calls = r.calls]
                    /\ IF r.raised # "None"
                       THEN /\ handler' =
                                   [event EXCEPT !.calls = <<published_call>>,
                                                 !.raised = r.raised]
                            /\ UNCHANGED audit_log
                       ELSE /\ handler' =
                                   [event EXCEPT !.calls = <<published_call,
                                                             audit_call>>]
                            /\ audit_log' = audit_change_log(audit_log,
                                                             timestamp,
                                                             src_path)
        /\ UNCHANGED <<subscriptions, hist, conc>>

NextMonitor ==
    \/ /\ handler = NoEvent
       /\ TotalSubs(subscriptions) < MaxSubs
       /\ \E c \in Consumers, topic \in MonitorPatterns : Subscribe(c, topic)
       /\ UNCHANGED <<hist, conc, mon>>
    \/ /\ Len(audit_log) < MaxLog
       /\ \E is_directory \in BOOLEAN, src_path \in Paths,
             timestamp \in Timestamps, read \in ReadOutcomes :
              OnModified(is_directory, src_path, timestamp, read) /\ MailFits

SpecMonitor == Init /\ [][NextMonitor]_vars

(***************************************************************************)
(* C19 as claimed.  on_modified for a directory event makes no call and    *)
(* changes nothing (no publish reaches the broker); for any other event it *)
(* calls publish_file_change once and then audit_change_log once, both     *)
(* with the one timestamp and the event's src_path.                        *)
(***************************************************************************)
C19_AsClaimed ==
    [][\A is_directory \in BOOLEAN, src_path \in Paths,
          timestamp \in Timestamps, read \in ReadOutcomes :
          OnModified(is_directory, src_path, timestamp, read) =>
              IF is_directory
              THEN /\ handler'.calls = <<>>
                   /\ UNCHANGED <<subscriptions, messages, last,
                                  file_versions, audit_log>>
              ELSE handler'.calls =
                       << <<"publish_file_change", src_path, timestamp>>,
                          <<"audit_change_log", timestamp, src_path>> >>]_vars

(***************************************************************************)
(* C20 as claimed.  Every on_modified call for an event that is not a      *)
(* directory's appends the line "<timestamp>, <file_path>" to the audit    *)
(* log, whatever becomes of the publish made for the event.                *)
(***************************************************************************)
C20_AsClaimed ==
    [][\A src_path \in Paths, timestamp \in Timestamps,
          read \in ReadOutcomes :
          OnModified(FALSE, src_path, timestamp, read) =>
              audit_log' =
                  Append(audit_log, <<timestamp, ", ", src_path, "\n">>)]_vars

(***************************************************************************)
(* C21 as claimed.  get_file_diff, called by on_modified for a file that   *)
(* could be read, returns the body "+ <content>" exactly when the path has *)
(* no stored version (it was not processed before); for a path with a      *)
(* stored version it returns the unified diff of that version and the      *)
(* content read; and it stores the content read as the path's version.     *)
(***************************************************************************)
C21_AsClaimed ==
    [][\A src_path \in Paths, timestamp \in Timestamps, lines \in Contents :
          OnModified(FALSE, src_path, timestamp,
                     [raised |-> "None", lines |-> lines]) =>
              LET previous_content == file_versions[src_path]
                  file_diff ==
                      get_file_diff(file_versions, src_path, lines).file_diff
              IN  /\ file_diff = <<"+ ", lines>>
                         <=> previous_content.kind = "None"
                  /\ previous_content.kind # "None" =>
                         file_diff = <<"--- previous", "+++ current",
                                       previous_content.lines, lines>>
                             \/ (file_diff = <<>>
                                     /\ previous_content.lines = lines)
                  /\ file_versions'[src_path] =
                         [kind |-> "list", lines |-> lines]]_vars

(***************************************************************************)
(* A publish during which a receive_message call raises.  publish has no   *)
(* try statement: the exception leaves both of its loops.  Which call      *)
(* raises, and where in receive_message, is an input of the step: in the   *)
(* append (nothing is stored) or in a print after it (the entry is         *)
(* stored).                                                                *)
(***************************************************************************)
RaisePoints == {"append", "print"}

RaiseTopics == {Str(<<"a">>), Str(<<"a", "~">>)}

\* the mailboxes after a receive_message call that raises at the point
receive_message_raising(msgs, consumer, topic, message, point) ==
    IF point = "print"
    THEN receive_message(msgs, consumer, topic, message)
    ELSE msgs

\* (mutant) the exception of the k-th call caught, the loops carried on
publish_raising_continuing(subs, msgs, topic, message, k, point) ==
    LET calls == Dispatch(subs, topic, message)
        done == Deliver(msgs, SubSeq(calls, 1, k - 1))
        at_k == receive_message_raising(done, calls[k][1], topic, message,
                                        point)
    IN  [raised |-> "Exception", branch |-> "receive_raised",
         messages |-> Deliver(at_k, SubSeq(calls, k + 1, Len(calls))),
         calls |-> SubSeq(calls, 1, k)]

\* publish with a valid topic whose k-th receive_message call raises: the
\* calls before it are made and stay, the k-th ends at the point, none
\* follows
publish_raising(subs, msgs, topic, message, k, point) ==
    LET calls == Dispatch(subs, topic, message)
        done == Deliver(msgs, SubSeq(calls, 1, k - 1))
    IN  [raised |-> "Exception", branch |-> "receive_raised",
         messages |-> receive_message_raising(done, calls[k][1], topic,
                                              message, point),
         calls |-> SubSeq(calls, 1, k)]

\* broker.publish(topic, message) with the k-th receive_message raising
PublishRaising(topic, message, k, point) ==
    /\ _is_valid_topic(topic)
    /\ k <= Len(Dispatch(subscriptions, topic, message))
    /\ LET r == publish_raising(subscriptions, messages, topic, message, k,
                                point)
       IN  /\ messages' = r.messages
           /\ last' = [NoCall EXCEPT !.op = "publish", !.branch = r.branch,
                                     !.raised = r.raised, !.calls = r.calls]
           /\ UNCHANGED subscriptions

NextRaise ==
    \/ /\ TotalSubs(subscriptions) < MaxSubs
       /\ \E c \in Consumers, topic \in RaiseTopics : Subscribe(c, topic)
       /\ UNCHANGED <<hist, conc, mon>>
    \/ /\ \E topic \in RaiseTopics, message \in Messages :
              Publish(topic, message) /\ MailFits
       /\ UNCHANGED <<hist, conc, mon>>
    \/ /\ \E topic \in RaiseTopics, message \in Messages,
             k \in 1..MaxSubs, point \in RaisePoints :
              PublishRaising(topic, message, k, point) /\ MailFits
       /\ UNCHANGED <<hist, conc, mon>>

SpecRaise == Init /\ [][NextRaise]_vars

\* the place of a matching registration in the dispatch order
DispatchPlace(subs, topic, slot) ==
    Cardinality({q \in MatchingSlots(subs, topic) : SlotBefore(q, slot)}) + 1

\* the matching registrations of c that come before place k
EarlierRegistrations(subs, topic, c, k) ==
    Cardinality({slot \in MatchingSlots(subs, topic) :
                    /\ subs[slot[1]].consumers[slot[2]] = c
                    /\ DispatchPlace(subs, topic, slot) < k})

\* c is the consumer of the matching registration at place k
AtPlace(subs, topic, c, k) ==
    \E slot \in MatchingSlots(subs, topic) :
        /\ subs[slot[1]].consumers[slot[2]] = c
        /\ DispatchPlace(subs, topic, slot) = k

(***************************************************************************)
(* C22.  When the k-th receive_message call of a publish raises, the       *)
(* exception reaches the caller of publish, the registry is unchanged, and *)
(* each mailbox has grown by exactly one (topic, message) entry per        *)
(* matching registration of its consumer before place k in the dispatch    *)
(* order: the deliveries made before the failure stay, the registrations   *)
(* after place k deliver nothing.  Only the consumer whose call raised may *)
(* hold one entry more, the one of the failed call itself.                 *)
(***************************************************************************)
C22_FanOutStopsAtRaisingReceive ==
    [][last'.branch = "receive_raised" =>
          \A topic \in RaiseTopics, message \in Messages,
             k \in 1..MaxSubs, point \in RaisePoints :
              PublishRaising(topic, message, k, point) =>
                  /\ last'.raised # "None"
                  /\ subscriptions' = subscriptions
                  /\ \A c \in Consumers :
                        LET n == EarlierRegistrations(subscriptions, topic,
                                                      c, k)
                        IN  \/ messages'[c] =
                                   messages[c] \o
                                   Copies(n, <<topic, message>>)
                            \/ /\ AtPlace(subscriptions, topic, c, k)
                               /\ messages'[c] =
                                      messages[c] \o
                                      Copies(n + 1, <<topic, message>>)]_vars

\* the second of three receive_message calls of a publish raised: the first
\* consumer holds the message, the one called second and to be called third
\* holds nothing
C22_Witness ==
    /\ last.branch = "receive_raised"
    /\ Len(last.calls) = 2
    /\ Cardinality(MatchingSlots(subscriptions, last.calls[1][2])) = 3
    /\ last.calls[1][1] = "consumer"
    /\ last.calls[2][1] = "consumer2"
    /\ AtPlace(subscriptions, last.calls[1][2], "consumer2", 3)
    /\ messages["consumer"] = << <<last.calls[1][2], last.calls[1][3]>> >>
    /\ messages["consumer2"] = <<>>

(***************************************************************************)
(* C23.  publish never changes the registry: whatever the topic, valid or  *)
(* not, and whatever the registry, the patterns, their order and every     *)
(* list of consumers are after a publish call (made with the stock         *)
(* Consumer.receive_message) what they were before it.                     *)
(***************************************************************************)
C23_PublishLeavesRegistry ==
    [][last'.op = "publish" =>
          \A topic \in TopicArgs, message \in Messages :
              (Publish(topic, message) \/ ProducerPublish(topic, message)) =>
                  /\ Len(subscriptions') = Len(subscriptions)
                  /\ \A i \in 1..Len(subscriptions) :
                        /\ subscriptions'[i].topic = subscriptions[i].topic
                        /\ subscriptions'[i].consumers
                               = subscriptions[i].consumers]_vars

\* a publish has delivered to consumers of a registry of two patterns, one
\* of them matching
C23_Witness ==
    /\ last.op = "publish"
    /\ last.raised = "None"
    /\ last.calls # <<>>
    /\ Len(subscriptions) = 2
    /\ \E i \in 1..2 :
          ~_matches(subscriptions[i].topic.chars, last.calls[1][2].chars)

(***************************************************************************)
(* subscribe(c, p) followed at once by unsubscribe(c, p).  The history     *)
(* variable trip keeps the registry a successful subscribe call found and  *)
(* whether the consumer was then absent from the pattern's list; it is     *)
(* closed by the unsubscribe call of the same consumer and pattern when    *)
(* that is the next call, and dropped by any other call.                   *)
(***************************************************************************)
RoundTopics == {Str(<<"a">>), Str(<<"a", "~">>), Str(<<" ">>)}

\* c is in the list registered under the pattern
RegisteredUnder(subs, c, topic) ==
    \E i \in 1..Len(subs) :
        /\ subs[i].topic = topic
        /\ \E j \in 1..Len(subs[i].consumers) : subs[i].consumers[j] = c

TripAfterSubscribe(c, topic) ==
    IF InvalidArg(topic) THEN NoTrip
    ELSE [stage |-> "subscribed", consumer |-> c, topic |-> topic,
          before |-> subscriptions,
          fresh |-> ~RegisteredUnder(subscriptions, c, topic)]

TripAfterUnsubscribe(c, topic) ==
    IF /\ trip.stage = "subscribed"
       /\ trip.consumer = c
       /\ trip.topic = topic
    THEN [trip EXCEPT !.stage = "done"]
    ELSE NoTrip

NextRound ==
    \/ /\ TotalSubs(subscriptions) < MaxSubs
       /\ \E c \in Consumers, topic \in RoundTopics :
              Subscribe(c, topic) /\ trip' = TripAfterSubscribe(c, topic)
       /\ UNCHANGED <<watch, published, early, conc, mon>>
    \/ /\ \E c \in Consumers, topic \in RoundTopics :
              Unsubscribe(c, topic) /\ trip' = TripAfterUnsubscribe(c, topic)
       /\ UNCHANGED <<watch, published, early, conc, mon>>

SpecRound == Init /\ [][NextRound]_vars

(***************************************************************************)
(* C24.  Round trip: after subscribe(c, p) with a valid pattern p under    *)
(* which c was not registered, followed at once by unsubscribe(c, p), the  *)
(* registry is exactly what it was before the two calls: the same          *)
(* patterns in the same order, each with the same list of consumers in the *)
(* same order.                                                             *)
(***************************************************************************)
C24_SubscribeUnsubscribeRoundTrip ==
    (trip.stage = "done" /\ trip.fresh /\ ~InvalidArg(trip.topic)) =>
        /\ last.op = "unsubscribe"
        /\ last.raised = "None"
        /\ Len(subscriptions) = Len(trip.before)
        /\ \A i \in 1..Len(trip.before) :
              /\ subscriptions[i].topic = trip.before[i].topic
              /\ subscriptions[i].consumers = trip.before[i].consumers

\* a round trip on a pattern that was absent, made on a registry whose
\* first pattern is another one and holds two consumers
C24_Witness ==
    /\ trip.stage = "done"
    /\ trip.fresh
    /\ Len(trip.before) = 1
    /\ trip.before[1].topic # trip.topic
    /\ Len(trip.before[1].consumers) = 2
    /\ subscriptions = trip.before
====
